---- MODULE Spec2Model ----
(***************************************************************************)
(* A model of debug_calls/decorators.py: the caller locator                *)
(* get_caller_info and the decorator debug_calls with its wrapper.         *)
(*                                                                         *)
(* Python values are modelled as follows.  An ordered dict is a sequence   *)
(* of records in insertion order; a tuple or list is a sequence; None is   *)
(* the string "None" where a name is expected.  Argument values are        *)
(* integers: the code never looks inside a value, so each call passes      *)
(* pairwise distinct values, which tells any two of them apart.            *)
(***************************************************************************)
EXTENDS Integers, Sequences, FiniteSets, TLC

VARIABLES
    sig,              \* signature(__c).parameters of the callable being decorated
    pc,               \* position in debug_calls / wrapper
    param_to_default, \* static table, line 76
    parg_names,       \* static table, line 77
    kwarg_names,      \* static table, line 78
    star_pargs_name,  \* static table, line 79
    star_kwargs_name, \* static table, line 80
    pad_length,       \* static, line 98
    pargs,            \* the wrapper's *pargs
    kwargs,           \* the wrapper's **kwargs (ordered)
    call_stack,       \* stack()[2:] at the moment get_caller_info runs
    caller,           \* (filename, lineno, caller_name, frames_skipped), line 103
    arg_to_value,     \* per-call binding record, line 107
    star_kwargs,      \* excess keywords, line 108
    remaining_parg_names, \* line 118
    star_pargs,       \* excess positionals, line 121
    out,              \* the lines printed by the current invocation
    invoked_with,     \* the argument lists __c received in this invocation, in order
    outcome,          \* what the wrapper (or the decorator) returns or raises
    history,          \* TRUE once an invocation of the wrapper has ended
    frames_to_skip,   \* get_caller_info called directly: its argument
    info              \* get_caller_info called directly: its result

vars == <<sig, pc, param_to_default, parg_names, kwarg_names, star_pargs_name,
          star_kwargs_name, pad_length, pargs, kwargs, call_stack, caller,
          arg_to_value, star_kwargs, remaining_parg_names, star_pargs, out,
          invoked_with, outcome, history, frames_to_skip, info>>

statics == <<param_to_default, parg_names, kwarg_names, star_pargs_name,
             star_kwargs_name, pad_length>>

locals == <<caller, arg_to_value, star_kwargs, remaining_parg_names, star_pargs>>

rest == <<history, frames_to_skip, info>>

(***************************************************************************)
(* Bounds of the model.                                                    *)
(***************************************************************************)
MaxNamed == 2     \* named parameters of a signature
MaxPargs == 2     \* positional arguments of a call
MaxKwargs == 2    \* keyword arguments of a call
MaxFrames == 3    \* frames of a call chain given to get_caller_info

(***************************************************************************)
(* Small helpers on sequences.                                             *)
(***************************************************************************)
Range(s) == {s[i] : i \in 1..Len(s)}

Min(a, b) == IF a < b THEN a ELSE b

SeqsUpTo(S, n) == UNION {[1..k -> S] : k \in 0..n}

Injective(s) == \A i, j \in 1..Len(s) : s[i] = s[j] => i = j

(***************************************************************************)
(* Signatures.  A parameter descriptor is what inspect.signature yields:   *)
(* a name, a kind and a default (Empty when the parameter has none).       *)
(* Python orders the kinds positional-only, positional-or-keyword,         *)
(* *args, keyword-only, **kwargs, and lets only trailing positional        *)
(* parameters have defaults.                                               *)
(***************************************************************************)
POSITIONAL_ONLY == "POSITIONAL_ONLY"
POSITIONAL_OR_KEYWORD == "POSITIONAL_OR_KEYWORD"
KEYWORD_ONLY == "KEYWORD_ONLY"
VAR_POSITIONAL == "VAR_POSITIONAL"
VAR_KEYWORD == "VAR_KEYWORD"

None == "None"

Empty == -1

NamePool == <<"a", "bb", "ccc", "dddd", "eeeee">>

ExtraKey == "x"

DefaultOf(i) == 50 + i

Shapes ==
    {s \in [po : 0..MaxNamed, pk : 0..MaxNamed, ko : 0..MaxNamed,
            vp : BOOLEAN, vk : BOOLEAN, dp : 0..MaxNamed, dk : 0..MaxNamed] :
        /\ s.po + s.pk + s.ko <= MaxNamed
        /\ s.dp <= s.po + s.pk
        /\ s.dk <= s.ko}

MkSig(s) ==
    LET np == s.po + s.pk
        pos == [i \in 1..np |->
                  [name |-> NamePool[i],
                   kind |-> IF i <= s.po THEN POSITIONAL_ONLY ELSE POSITIONAL_OR_KEYWORD,
                   default |-> IF i > np - s.dp THEN DefaultOf(i) ELSE Empty]]
        vp == IF s.vp
              THEN <<[name |-> "args", kind |-> VAR_POSITIONAL, default |-> Empty]>>
              ELSE <<>>
        ko == [j \in 1..s.ko |->
                  [name |-> NamePool[np + j],
                   kind |-> KEYWORD_ONLY,
                   default |-> IF j > s.ko - s.dk THEN DefaultOf(np + j) ELSE Empty]]
        vk == IF s.vk
              THEN <<[name |-> "kwargs", kind |-> VAR_KEYWORD, default |-> Empty]>>
              ELSE <<>>
    IN  pos \o vp \o ko \o vk

Signatures == {MkSig(s) : s \in Shapes}

(***************************************************************************)
(* Decoration time: the loop of lines 82-96 and the width of line 98.      *)
(***************************************************************************)
IsNamed(param) ==
    param.kind \in {POSITIONAL_ONLY, POSITIONAL_OR_KEYWORD, KEYWORD_ONLY}

IsPositionalCapable(param) ==
    param.kind \in {POSITIONAL_ONLY, POSITIONAL_OR_KEYWORD}

\* a loop that forgets line 89: positional-or-keyword names are not keyword names
KeywordOnlyIsKeywordCapable(param) == param.kind = KEYWORD_ONLY

IsKeywordCapable(param) ==
    param.kind \in {POSITIONAL_OR_KEYWORD, KEYWORD_ONLY}

NamesOf(params) == [i \in 1..Len(params) |-> params[i].name]

ParamToDefault(parameters) ==
    LET named == SelectSeq(parameters, IsNamed)
    IN  [i \in 1..Len(named) |->
            [name |-> named[i].name, value |-> named[i].default, tag |-> "d"]]

PargNames(parameters) == NamesOf(SelectSeq(parameters, IsPositionalCapable))

KwargNames(parameters) == NamesOf(SelectSeq(parameters, IsKeywordCapable))

StarName(parameters, kind) ==
    LET at == {i \in 1..Len(parameters) : parameters[i].kind = kind}
    IN  IF at = {} THEN None ELSE parameters[CHOOSE i \in at : \A j \in at : j <= i].name

StarPargsName(parameters) == StarName(parameters, VAR_POSITIONAL)

StarKwargsName(parameters) == StarName(parameters, VAR_KEYWORD)

\* max(len(name) for name in names): Python raises ValueError on no names.
MaxRaises(names) == Len(names) = 0

MaxLen(names) ==
    LET lens == {Len(names[i]) : i \in 1..Len(names)}
    IN  CHOOSE m \in lens : \A n \in lens : n <= m

Keys(dict) == [i \in 1..Len(dict) |-> dict[i].name]

(***************************************************************************)
(* get_caller_info, lines 30-40.  A frame is (filename, lineno, function). *)
(***************************************************************************)
_FRAMES_TO_SKIP ==
    {<<"stdlib/contextlib.py", "inner">>,
     <<"site-packages/celery/app/task.py", "__call__">>,
     <<"site-packages/celery/local.py", "__call__">>,
     <<"site-packages/ddtrace/tracer.py", "func_wrapper">>}

Sentinel == [filename |-> "", lineno |-> 0, function |-> "", skipped |-> TRUE]

\* a match on the file alone
FrameMatchesFile(frame, skip) == \E p \in skip : p[1] = frame.filename

FrameMatches(frame, skip) == <<frame.filename, frame.function>> \in skip

\* an off-by-one flag
FramesSkippedLate(i) == i > 1

FramesSkipped(i) == i > 0

RECURSIVE ScanFrames(_, _, _)
ScanFrames(stack, skip, i) ==
    IF i >= Len(stack)
    THEN Sentinel
    ELSE IF FrameMatches(stack[i + 1], skip)
         THEN ScanFrames(stack, skip, i + 1)
         ELSE [filename |-> stack[i + 1].filename,
               lineno |-> stack[i + 1].lineno,
               function |-> stack[i + 1].function,
               skipped |-> FramesSkipped(i)]

get_caller_info(stack, skip) == ScanFrames(stack, skip, 0)

(***************************************************************************)
(* Ordered-dict assignment d[name] = ...: an existing key keeps its place, *)
(* a new key goes last.                                                    *)
(***************************************************************************)
HasKey(dict, name) == \E i \in 1..Len(dict) : dict[i].name = name

DictSet(dict, name, value, tag) ==
    IF HasKey(dict, name)
    THEN [i \in 1..Len(dict) |->
            IF dict[i].name = name
            THEN [name |-> name, value |-> value, tag |-> tag]
            ELSE dict[i]]
    ELSE Append(dict, [name |-> name, value |-> value, tag |-> tag])

KwSet(dict, name, value) ==
    IF HasKey(dict, name)
    THEN [i \in 1..Len(dict) |->
            IF dict[i].name = name THEN [name |-> name, value |-> value] ELSE dict[i]]
    ELSE Append(dict, [name |-> name, value |-> value])

(***************************************************************************)
(* Call time: the classification of lines 107-121.                         *)
(***************************************************************************)
\* line 107: param_to_default.copy()
CopyOf(dict) == dict

\* no copy: the updates are made to param_to_default itself
DefaultsAliased(defaults, copy) == copy

\* line 107: what the updates made to the copy leave in param_to_default
DefaultsAfterCall(defaults, copy) == defaults

\* no membership test: every keyword is taken for a named parameter
AnyKwargName(name, names) == TRUE

\* line 112: name in kwarg_names
IsKwargName(name, names) == name \in Range(names)

\* lines 111-115
RECURSIVE ApplyKwargs(_, _, _, _, _)
ApplyKwargs(kw, names, a2v, skw, i) ==
    IF i > Len(kw)
    THEN [arg_to_value |-> a2v, star_kwargs |-> skw]
    ELSE IF IsKwargName(kw[i].name, names)
         THEN ApplyKwargs(kw, names, DictSet(a2v, kw[i].name, kw[i].value, "k"), skw, i + 1)
         ELSE ApplyKwargs(kw, names, a2v, KwSet(skw, kw[i].name, kw[i].value), i + 1)

\* line 118: a parameter name is a str and an element of kwargs.items() is a
\* (key, value) tuple; Python's == between a str and a tuple is False.
NameEqualsItem(name, item) == FALSE

NameInItems(name, kw) == \E i \in 1..Len(kw) : NameEqualsItem(name, kw[i])

\* line 118
RemainingPargNames(names, kw) ==
    LET Unused(name) == ~NameInItems(name, kw)
    IN  SelectSeq(names, Unused)

\* line 120: arg_to_value.update(zip(remaining_parg_names, product(pargs, "p")))
RECURSIVE ZipUpdate(_, _, _, _)
ZipUpdate(a2v, names, values, i) ==
    IF i > Len(names) \/ i > Len(values)
    THEN a2v
    ELSE ZipUpdate(DictSet(a2v, names[i], values[i], "p"), names, values, i + 1)

\* line 121: pargs[len(remaining_parg_names):]
StarPargs(values, names) == SubSeq(values, Len(names) + 1, Len(values))

\* lines 107-121 as a whole
ClassifyCall(defaults, pnames, knames, P, K) ==
    LET applied == ApplyKwargs(K, knames, CopyOf(defaults), <<>>, 1)
        remaining == RemainingPargNames(pnames, K)
    IN  [arg_to_value |-> ZipUpdate(applied.arg_to_value, remaining, P, 1),
         star_kwargs |-> applied.star_kwargs,
         remaining_parg_names |-> remaining,
         star_pargs |-> StarPargs(P, remaining)]

(***************************************************************************)
(* Call time: the report of lines 102-105 and 123-132.                     *)
(***************************************************************************)
SeparatorLine == [line |-> "separator"]

HeaderLines(c) ==
    <<[line |-> "qualname"],
      [line |-> "called_by", function |-> c.function, filename |-> c.filename,
       lineno |-> c.lineno, skipped |-> c.skipped]>>

ParamLines(a2v) ==
    [i \in 1..Len(a2v) |->
        [line |-> "param", name |-> a2v[i].name, value |-> a2v[i].value, tag |-> a2v[i].tag]]

StarPargsLines(name, values) ==
    IF name # None
    THEN <<[line |-> "star_pargs_name", name |-> name],
           [line |-> "star_pargs", values |-> values]>>
    ELSE <<>>

\* line 130 raises when there is a **kwargs parameter and no excess keyword
StarKwargsRaises(name, skw) == name # None /\ MaxRaises(Keys(skw))

StarKwargsLines(name, skw) ==
    IF name # None
    THEN <<[line |-> "star_kwargs_name", name |-> name]>>
         \o [i \in 1..Len(skw) |->
               [line |-> "star_kwarg", name |-> skw[i].name, value |-> skw[i].value]]
    ELSE <<>>

(***************************************************************************)
(* The decorated callable __c.  Its signature decides which calls Python   *)
(* binds (TypeError otherwise); its body is opaque and is taken to return  *)
(* for some argument lists and to raise for others.                        *)
(***************************************************************************)
KeyOf(kw) == {kw[i].name : i \in 1..Len(kw)}

HasKind(kinds, param) == param.kind \in kinds

NamesOfKind(parameters, kinds) ==
    LET OfKind(param) == HasKind(kinds, param)
        kept == SelectSeq(parameters, OfKind)
    IN  [k \in 1..Len(kept) |-> kept[k].name]

PyNamed(parameters) ==
    NamesOfKind(parameters, {POSITIONAL_ONLY, POSITIONAL_OR_KEYWORD, KEYWORD_ONLY})

PyPositional(parameters) ==
    NamesOfKind(parameters, {POSITIONAL_ONLY, POSITIONAL_OR_KEYWORD})

PyKeyword(parameters) ==
    Range(NamesOfKind(parameters, {POSITIONAL_OR_KEYWORD, KEYWORD_ONLY}))

PyHasVarPositional(parameters) == NamesOfKind(parameters, {VAR_POSITIONAL}) # <<>>

PyHasVarKeyword(parameters) == NamesOfKind(parameters, {VAR_KEYWORD}) # <<>>

\* the parameters Python binds from the positional arguments P
BoundByPosition(parameters, P) ==
    LET pos == PyPositional(parameters)
    IN  {pos[i] : i \in 1..Min(Len(pos), Len(P))}

\* the parameters Python binds from the keyword arguments K
BoundByKeyword(parameters, K) == KeyOf(K) \cap PyKeyword(parameters)

ValidCall(parameters, P, K) ==
    /\ Len(P) <= Len(PyPositional(parameters)) \/ PyHasVarPositional(parameters)
    /\ \A key \in KeyOf(K) :
          IF key \in PyKeyword(parameters)
          THEN key \notin BoundByPosition(parameters, P)
          ELSE PyHasVarKeyword(parameters)
    /\ \A i \in 1..Len(parameters) :
          (parameters[i].name \in Range(PyNamed(parameters)) /\ parameters[i].default = Empty)
              => parameters[i].name \in
                    BoundByPosition(parameters, P) \cup BoundByKeyword(parameters, K)

BodyRaises(P, K) == (Len(P) + Len(K)) % 2 = 1

CallOriginal(parameters, P, K) ==
    IF ~ValidCall(parameters, P, K)
    THEN [kind |-> "raise", exc |-> "TypeError", args |-> <<P, K>>]
    ELSE IF BodyRaises(P, K)
         THEN [kind |-> "raise", exc |-> "BodyError", args |-> <<P, K>>]
         ELSE [kind |-> "return", exc |-> "", args |-> <<P, K>>]

\* the keywords are not forwarded
ForwardedWithoutKeywords(P, K) == <<P, <<>>>>

\* line 133: __c(*pargs, **kwargs)
Forwarded(P, K) == <<P, K>>

NoOutcome == [kind |-> "none", exc |-> "", args |-> <<>>]

ValueErrorRaised == [kind |-> "raise", exc |-> "ValueError", args |-> <<>>]

NoCaller == [filename |-> "?", lineno |-> -1, function |-> "?", skipped |-> FALSE]

(***************************************************************************)
(* The inputs: calls and call chains.                                      *)
(***************************************************************************)
KeyPool == {NamePool[i] : i \in 1..MaxNamed} \cup {ExtraKey}

PargsSet == {[i \in 1..n |-> i] : n \in 0..MaxPargs}

KwargsSet ==
    {[i \in 1..Len(ks) |-> [name |-> ks[i], value |-> 10 + i]] :
        ks \in {s \in SeqsUpTo(KeyPool, MaxKwargs) : Injective(s)}}

AppFrame == [filename |-> "app.py", lineno |-> 4, function |-> "<module>"]

CtxFrame == [filename |-> "stdlib/contextlib.py", lineno |-> 79, function |-> "inner"]

WrapperStacks == {<<AppFrame>>, <<CtxFrame, AppFrame>>}

LocFrames ==
    [filename : {"stdlib/contextlib.py", "app.py"}, lineno : {4, 79},
     function : {"inner", "main"}]

LocSkipLists == SUBSET ({"stdlib/contextlib.py", "app.py"} \X {"inner", "main"})

(***************************************************************************)
(* The state machine of the decorator and its wrapper.                     *)
(***************************************************************************)
Unbound ==
    /\ param_to_default = <<>>
    /\ parg_names = <<>>
    /\ kwarg_names = <<>>
    /\ star_pargs_name = None
    /\ star_kwargs_name = None
    /\ pad_length = 0

Idle ==
    /\ pargs = <<>>
    /\ kwargs = <<>>
    /\ call_stack = <<>>
    /\ caller = NoCaller
    /\ arg_to_value = <<>>
    /\ star_kwargs = <<>>
    /\ remaining_parg_names = <<>>
    /\ star_pargs = <<>>
    /\ out = <<>>
    /\ invoked_with = <<>>
    /\ outcome = NoOutcome

Init ==
    /\ sig \in Signatures
    /\ pc = "start"
    /\ Unbound
    /\ Idle
    /\ history = FALSE
    /\ frames_to_skip = _FRAMES_TO_SKIP
    /\ info = NoCaller

\* debug_calls(__c), lines 74-98 and 139
Decorate ==
    /\ pc = "start"
    /\ IF MaxRaises(Keys(ParamToDefault(sig)))
       THEN /\ pc' = "decorate_raised"
            /\ outcome' = ValueErrorRaised
            /\ UNCHANGED statics
       ELSE /\ pc' = "ready"
            /\ param_to_default' = ParamToDefault(sig)
            /\ parg_names' = PargNames(sig)
            /\ kwarg_names' = KwargNames(sig)
            /\ star_pargs_name' = StarPargsName(sig)
            /\ star_kwargs_name' = StarKwargsName(sig)
            /\ pad_length' = MaxLen(Keys(ParamToDefault(sig)))
            /\ UNCHANGED outcome
    /\ UNCHANGED <<sig, pargs, kwargs, call_stack, locals, out, invoked_with, rest>>

\* wrapper(*pargs, **kwargs) is entered; line 102
Call ==
    /\ pc = "ready"
    /\ \E P \in PargsSet, K \in KwargsSet, st \in WrapperStacks :
          /\ pargs' = P
          /\ kwargs' = K
          /\ call_stack' = st
    /\ out' = <<SeparatorLine>>
    /\ pc' = "separator"
    /\ UNCHANGED <<sig, statics, locals, invoked_with, outcome, rest>>

\* lines 103-105
Locate ==
    /\ pc = "separator"
    /\ caller' = get_caller_info(call_stack, _FRAMES_TO_SKIP)
    /\ out' = out \o HeaderLines(get_caller_info(call_stack, _FRAMES_TO_SKIP))
    /\ pc' = "located"
    /\ UNCHANGED <<sig, statics, pargs, kwargs, call_stack, arg_to_value, star_kwargs,
                   remaining_parg_names, star_pargs, invoked_with, outcome, rest>>

\* lines 107-121
Classify ==
    /\ pc = "located"
    /\ LET c == ClassifyCall(param_to_default, parg_names, kwarg_names, pargs, kwargs)
       IN  /\ arg_to_value' = c.arg_to_value
           /\ star_kwargs' = c.star_kwargs
           /\ remaining_parg_names' = c.remaining_parg_names
           /\ star_pargs' = c.star_pargs
           /\ param_to_default' = DefaultsAfterCall(param_to_default, c.arg_to_value)
    /\ pc' = "classified"
    /\ UNCHANGED <<sig, parg_names, kwarg_names, star_pargs_name, star_kwargs_name,
                   pad_length, pargs, kwargs, call_stack, caller, out, invoked_with,
                   outcome, rest>>

\* lines 123-132
Report ==
    /\ pc = "classified"
    /\ out' = out \o ParamLines(arg_to_value)
                  \o StarPargsLines(star_pargs_name, star_pargs)
                  \o StarKwargsLines(star_kwargs_name, star_kwargs)
    /\ IF StarKwargsRaises(star_kwargs_name, star_kwargs)
       THEN pc' = "raised" /\ outcome' = ValueErrorRaised
       ELSE pc' = "reported" /\ UNCHANGED outcome
    /\ UNCHANGED <<sig, statics, pargs, kwargs, call_stack, locals, invoked_with, rest>>

\* line 133
Invoke ==
    /\ pc = "reported"
    /\ invoked_with' = Append(invoked_with, Forwarded(pargs, kwargs))
    /\ outcome' = CallOriginal(sig, Forwarded(pargs, kwargs)[1], Forwarded(pargs, kwargs)[2])
    /\ pc' = "returned"
    /\ UNCHANGED <<sig, statics, pargs, kwargs, call_stack, locals, out, rest>>

\* the wrapper's frame is left, by return or by exception
Return ==
    /\ pc \in {"returned", "raised"}
    /\ pc' = "ready"
    /\ pargs' = <<>>
    /\ kwargs' = <<>>
    /\ call_stack' = <<>>
    /\ caller' = NoCaller
    /\ arg_to_value' = <<>>
    /\ star_kwargs' = <<>>
    /\ remaining_parg_names' = <<>>
    /\ star_pargs' = <<>>
    /\ out' = <<>>
    /\ invoked_with' = <<>>
    /\ outcome' = NoOutcome
    /\ history' = TRUE
    /\ UNCHANGED <<sig, statics, frames_to_skip, info>>

Next == Decorate \/ Call \/ Locate \/ Classify \/ Report \/ Invoke \/ Return

Spec == Init /\ [][Next]_vars

(***************************************************************************)
(* get_caller_info called on its own, with any chain and any skip list.    *)
(***************************************************************************)
LocInit ==
    /\ sig = <<>>
    /\ pc = "locate"
    /\ Unbound
    /\ pargs = <<>>
    /\ kwargs = <<>>
    /\ call_stack \in SeqsUpTo(LocFrames, MaxFrames)
    /\ caller = NoCaller
    /\ arg_to_value = <<>>
    /\ star_kwargs = <<>>
    /\ remaining_parg_names = <<>>
    /\ star_pargs = <<>>
    /\ out = <<>>
    /\ invoked_with = <<>>
    /\ outcome = NoOutcome
    /\ history = FALSE
    /\ frames_to_skip \in LocSkipLists
    /\ info = NoCaller

GetCallerInfo ==
    /\ pc = "locate"
    /\ info' = get_caller_info(call_stack, frames_to_skip)
    /\ pc' = "located_direct"
    /\ UNCHANGED <<sig, statics, pargs, kwargs, call_stack, locals, out, invoked_with,
                   outcome, history, frames_to_skip>>

LocNext == GetCallerInfo

LocSpec == LocInit /\ [][LocNext]_vars

(***************************************************************************)
(* Vocabulary of the properties.                                           *)
(***************************************************************************)
Decorated == pc \notin {"start", "decorate_raised", "locate", "located_direct"}

AfterClassify == pc \in {"classified", "reported", "raised", "returned"}

AfterReport == pc \in {"reported", "raised", "returned"}

Ended == pc \in {"raised", "returned"}

IsParamLine(l) == l.line = "param"

ReportedParams == SelectSeq(out, IsParamLine)

EntryOf(dict, name) == dict[CHOOSE i \in 1..Len(dict) : dict[i].name = name]

PositionOf(names, name) == CHOOSE i \in 1..Len(names) : names[i] = name

DeclaredDefault(parameters, name) ==
    parameters[CHOOSE i \in 1..Len(parameters) : parameters[i].name = name].default

\* the positional-capable names that are not keys of K, in declaration order
FilteredSlots(parameters, K) ==
    LET keys == KeyOf(K)
        NotAKey(name) == name \notin keys
    IN  SelectSeq(PyPositional(parameters), NotAKey)

ExcessKeywords(parameters, K) ==
    LET keywords == PyKeyword(parameters)
        Excess(item) == item.name \notin keywords
    IN  SelectSeq(K, Excess)

ExpectedLine(n, l) ==
    IF n \in BoundByPosition(sig, pargs)
    THEN l.tag = "p" /\ l.value = pargs[PositionOf(PyPositional(sig), n)]
    ELSE IF n \in BoundByKeyword(sig, kwargs)
         THEN l.tag = "k" /\ l.value = EntryOf(kwargs, n).value
         ELSE l.tag = "d" /\ l.value = DeclaredDefault(sig, n)

InSkipList(i) ==
    <<call_stack[i].filename, call_stack[i].function>> \in frames_to_skip

BoundAs(value, tag) ==
    \E i \in 1..Len(arg_to_value) :
        arg_to_value[i].value = value /\ arg_to_value[i].tag = tag

AsFirstCall ==
    ClassifyCall(ParamToDefault(sig), PargNames(sig), KwargNames(sig), pargs, kwargs)

ReportLength ==
    3 + Len(PyNamed(sig))
      + (IF PyHasVarPositional(sig) THEN 2 ELSE 0)
      + (IF PyHasVarKeyword(sig) THEN 1 + Len(ExcessKeywords(sig, kwargs)) ELSE 0)

(***************************************************************************)
(* C1.  For every valid call, the wrapper ends with exactly the outcome of *)
(* the undecorated callable on the same P and K (same return value or same *)
(* failure), and never fails itself before delegating.                     *)
(***************************************************************************)
C1_Transparent ==
    (Ended /\ ValidCall(sig, pargs, kwargs))
        => /\ pc = "returned"
           /\ outcome = CallOriginal(sig, pargs, kwargs)

(***************************************************************************)
(* C2.  For every valid call, each named parameter is reported 'p' with    *)
(* the positional argument when supplied by position, 'k' with the keyword *)
(* argument when supplied by name, and 'd' with its declared default when  *)
(* not supplied.                                                           *)
(***************************************************************************)
C2_Categories ==
    (AfterReport /\ ValidCall(sig, pargs, kwargs))
        => \A n \in Range(PyNamed(sig)) :
              /\ \E i \in 1..Len(ReportedParams) : ReportedParams[i].name = n
              /\ \A i \in 1..Len(ReportedParams) :
                    ReportedParams[i].name = n => ExpectedLine(n, ReportedParams[i])

C2_Witness ==
    /\ pc = "reported"
    /\ ValidCall(sig, pargs, kwargs)
    /\ \E i, j \in 1..Len(ReportedParams) :
          ReportedParams[i].tag = "p" /\ ReportedParams[j].tag = "k"

(***************************************************************************)
(* C3.  A positional-capable name that is a key of K is removed from the   *)
(* slots P is paired with: P is paired in order with the positional-       *)
(* capable names that are not keys of K, such a name is never rebound as   *)
(* positional, and the excess positionals number len(P) minus the length   *)
(* of the filtered list (when positive).                                   *)
(***************************************************************************)
C3_KeywordConsumesSlot ==
    AfterClassify
        => LET filtered == FilteredSlots(sig, kwargs)
               paired == Min(Len(filtered), Len(pargs))
           IN  /\ remaining_parg_names = filtered
               /\ \A i \in 1..paired :
                     /\ EntryOf(arg_to_value, filtered[i]).tag = "p"
                     /\ EntryOf(arg_to_value, filtered[i]).value = pargs[i]
               /\ \A n \in Range(PyPositional(sig)) \cap KeyOf(kwargs) :
                     EntryOf(arg_to_value, n).tag # "p"
               /\ Len(star_pargs) = Len(pargs) - paired

(***************************************************************************)
(* C4.  Decorating a callable with no named parameter does not fail: the   *)
(* decoration completes and returns a wrapper.                             *)
(***************************************************************************)
C4_DecorationCompletes == pc # "decorate_raised"

(***************************************************************************)
(* C5.  get_caller_info returns the file, line and function of the first   *)
(* frame outward whose (file, function) pair is not in the skip list, all  *)
(* frames before it being in the list; skipped is true exactly when that   *)
(* frame is not the immediate caller.                                      *)
(***************************************************************************)
C5_NearestFrame ==
    (pc = "located_direct" /\ \E i \in 1..Len(call_stack) : ~InSkipList(i))
        => \E i \in 1..Len(call_stack) :
              /\ ~InSkipList(i)
              /\ \A j \in 1..(i - 1) : InSkipList(j)
              /\ info.filename = call_stack[i].filename
              /\ info.lineno = call_stack[i].lineno
              /\ info.function = call_stack[i].function
              /\ info.skipped = (i > 1)
              /\ info.skipped = InSkipList(1)

C5_Witness ==
    /\ pc = "located_direct"
    /\ Len(call_stack) = 3
    /\ InSkipList(1) /\ InSkipList(2) /\ ~InSkipList(3)
    /\ call_stack[3].lineno # call_stack[1].lineno
    /\ info.skipped

(***************************************************************************)
(* C6.  get_caller_info returns the sentinel ("", 0, "", True) when every  *)
(* frame of the chain is in the skip list, the empty chain included, and   *)
(* in no other case.                                                       *)
(***************************************************************************)
C6_Sentinel ==
    pc = "located_direct"
        => ((\A i \in 1..Len(call_stack) : InSkipList(i))
              <=> (/\ info.filename = ""
                   /\ info.lineno = 0
                   /\ info.function = ""
                   /\ info.skipped))

C6_Witness ==
    /\ pc = "located_direct"
    /\ Len(call_stack) >= 2
    /\ \A i \in 1..Len(call_stack) : InSkipList(i)
    /\ info.filename = "" /\ info.lineno = 0 /\ info.function = "" /\ info.skipped

(***************************************************************************)
(* C7.  Every key of K that is not keyword-capable is in the excess        *)
(* keywords with its value and not in the named table; the elements of P   *)
(* left after the pairing are the excess positionals in their order; no    *)
(* element of P or K is both bound and in an excess collection, and none   *)
(* is dropped.                                                             *)
(***************************************************************************)
C7_ExcessCollections ==
    AfterClassify
        => /\ star_kwargs = ExcessKeywords(sig, kwargs)
           /\ \A i \in 1..Len(kwargs) :
                 kwargs[i].name \notin PyKeyword(sig) => ~BoundAs(kwargs[i].value, "k")
           /\ \E k \in 0..Len(pargs) :
                 /\ star_pargs = SubSeq(pargs, k + 1, Len(pargs))
                 /\ \A i \in 1..k : BoundAs(pargs[i], "p")
                 /\ \A i \in (k + 1)..Len(pargs) : ~BoundAs(pargs[i], "p")
           /\ \A i \in 1..Len(kwargs) :
                 BoundAs(kwargs[i].value, "k") # (kwargs[i] \in Range(star_kwargs))

(***************************************************************************)
(* C8.  For every call, the binding record and the report have exactly the *)
(* named parameters of the signature, once each, in declaration order.     *)
(***************************************************************************)
C8_ExactlyTheNamed ==
    /\ AfterClassify => Keys(arg_to_value) = PyNamed(sig)
    /\ AfterReport =>
          [i \in 1..Len(ReportedParams) |-> ReportedParams[i].name] = PyNamed(sig)

C8_Witness ==
    /\ pc = "reported"
    /\ Len(PyNamed(sig)) = 2
    /\ Len(pargs) = 2
    /\ Len(kwargs) = 2
    /\ star_kwargs # <<>>
    /\ \E i \in 1..Len(ReportedParams) : ReportedParams[i].tag = "k"

(***************************************************************************)
(* C9.  The static tables are those built at decoration time whatever      *)
(* invocations have been made, and the binding record and report of an     *)
(* invocation are those of the same call made first.                       *)
(***************************************************************************)
C9_NoRetention ==
    Decorated
        => LET first == AsFirstCall
           IN
           /\ param_to_default = ParamToDefault(sig)
           /\ parg_names = PargNames(sig)
           /\ kwarg_names = KwargNames(sig)
           /\ star_pargs_name = StarPargsName(sig)
           /\ star_kwargs_name = StarKwargsName(sig)
           /\ pad_length = MaxLen(PyNamed(sig))
           /\ AfterClassify =>
                 /\ arg_to_value = first.arg_to_value
                 /\ star_kwargs = first.star_kwargs
                 /\ star_pargs = first.star_pargs
           /\ AfterReport =>
                 out = <<SeparatorLine>>
                       \o HeaderLines(get_caller_info(call_stack, _FRAMES_TO_SKIP))
                       \o ParamLines(first.arg_to_value)
                       \o StarPargsLines(StarPargsName(sig), first.star_pargs)
                       \o StarKwargsLines(StarKwargsName(sig), first.star_kwargs)

\* after an earlier invocation, one that binds a positional and a keyword argument
C9_Witness ==
    /\ history
    /\ pc = "returned"
    /\ outcome.kind = "return"
    /\ \E i \in 1..Len(arg_to_value) : arg_to_value[i].tag = "p"
    /\ \E i \in 1..Len(arg_to_value) : arg_to_value[i].tag = "k"
    /\ \A i \in 1..Len(param_to_default) : param_to_default[i].tag = "d"

(***************************************************************************)
(* C10.  Within one invocation: separator, then caller located, then       *)
(* arguments classified, then report printed, then the original callable   *)
(* invoked; the callable is invoked at most once, only after the whole     *)
(* report, and with exactly the P and K the wrapper received, which        *)
(* classification and printing leave as they were.                         *)
(***************************************************************************)
C10_Order ==
    /\ caller # NoCaller => (out # <<>> /\ out[1].line = "separator")
    /\ arg_to_value # <<>> => caller # NoCaller
    /\ ReportedParams # <<>> => arg_to_value # <<>>
    /\ invoked_with # <<>> =>
          /\ Len(out) = ReportLength
          /\ Len(invoked_with) = 1
          /\ invoked_with[1] = <<pargs, kwargs>>

\* C10 as a property of every step of the wrapper: the order above holds after
\* the step, and no step of an invocation changes P or K.
C10_StepOrder ==
    [][/\ C10_Order'
       /\ (pc # "ready" /\ pc' # "ready") => (pargs' = pargs /\ kwargs' = kwargs)]_vars

C10_Witness ==
    /\ pc = "returned"
    /\ Len(invoked_with) = 1
    /\ pargs # <<>>
    /\ kwargs # <<>>
    /\ star_kwargs # <<>>

====
